---- MODULE Spec2Model ----
(***************************************************************************)
(* A model of dotenv/main.py: the transactional rewriter (rewrite), the    *)
(* key mutators built on it (set_key, unset_key), and the merge engine     *)
(* (resolve_variables, DotEnv.update_dict, dotenv_values,                  *)
(* chained_dotenv_values, load_dotenv), and processes that run the         *)
(* mutators on one path while a reader loads it.                           *)
(*                                                                         *)
(* Text is a sequence of symbols (one-character strings, plus the token    *)
(* "export " of set_key's format string).  An optional value (Python's     *)
(* Optional[...]) is a tuple: None is <<>> and a present value v is <<v>>. *)
(***************************************************************************)
EXTENDS Integers, Sequences, FiniteSets, TLC

\* ------------------------------------------------------------------ bounds
\* Lines of an initial env file.
MaxLines == 2
\* Calls of set_key / unset_key in one behaviour.
MaxCalls == 1
\* Bindings of one source of the merge engine.
MaxPairs == 2
\* Sources applied to one DotEnv object.
MaxSources == 2
\* Processes that run set_key / unset_key on the same path at the same time.
MaxProcs == 2

\* ------------------------------------------------------- optional values
None == <<>>
Some(x) == <<x>>
IsSome(o) == o # <<>>
Get(o) == o[1]
\* The text of an optional text, empty when there is none.
Text(o) == IF IsSome(o) THEN Get(o) ELSE << >>

\* ------------------------------------------------------------------ text
NL == "\n"
EXPORT == "export "
QUOTE == "'"
BACKSLASH == "\\"
CR == "\r"

RECURSIVE Concat(_)
\* "".join(parts)
Concat(parts) ==
    IF parts = << >> THEN << >> ELSE Head(parts) \o Concat(Tail(parts))

\* ------------------------------------------------------- text-mode files
RECURSIVE ReadText(_)
\* What a stream opened with io.open(path) reads from these bytes: with the
\* default newline=None, "\r\n" and a lone "\r" are read as "\n".
ReadText(bytes) ==
    IF bytes = << >> THEN << >>
    ELSE IF bytes[1] = CR
         THEN << NL >> \o ReadText(IF Len(bytes) >= 2 /\ bytes[2] = NL
                                   THEN SubSeq(bytes, 3, Len(bytes))
                                   ELSE Tail(bytes))
         ELSE << bytes[1] >> \o ReadText(Tail(bytes))

\* os.linesep, here that of a POSIX system
linesep == << NL >>

RECURSIVE WriteText(_)
\* The bytes a stream of NamedTemporaryFile(mode="w+") holds after this text
\* was written to it: with the default newline=None, "\n" goes out as
\* os.linesep.
WriteText(text) ==
    IF text = << >> THEN << >>
    ELSE (IF text[1] = NL THEN linesep ELSE << text[1] >>) \o WriteText(Tail(text))

\* ------------------------------------------------ binding stream (parser)
\* The index of the first newline of s, or 0.
FirstNL(s) ==
    IF \E i \in 1..Len(s) : s[i] = NL
    THEN CHOOSE i \in 1..Len(s) : s[i] = NL /\ \A j \in 1..(i - 1) : s[j] # NL
    ELSE 0

RECURSIVE SplitLines(_)
\* The lines of a text, each with its newline; the last one may lack it.
SplitLines(s) ==
    IF s = << >> THEN << >>
    ELSE LET i == FirstNL(s)
         IN  IF i = 0 THEN << s >>
             ELSE << SubSeq(s, 1, i) >> \o SplitLines(SubSeq(s, i + 1, Len(s)))

\* Symbols that end an unquoted key.
KeyStop == {"=", "#", " ", QUOTE}

Binding(key, value, error, original) ==
    [key |-> key, value |-> value, error |-> error, original |-> original]

\* The text between the quotes of a single-quoted value, unescaped.
RECURSIVE DecodeEscapes(_)
DecodeEscapes(s) ==
    IF s = << >> THEN << >>
    ELSE IF Len(s) >= 2 /\ s[1] = BACKSLASH /\ s[2] = QUOTE
         THEN << QUOTE >> \o DecodeEscapes(SubSeq(s, 3, Len(s)))
         ELSE << s[1] >> \o DecodeEscapes(Tail(s))

\* The index of the quote closing a single-quoted value v (v[1] is the
\* opening quote), or 0.
ClosingQuote(v) ==
    LET closes(i) == v[i] = QUOTE /\ v[i - 1] # BACKSLASH
    IN  IF \E i \in 2..Len(v) : closes(i)
        THEN CHOOSE i \in 2..Len(v) :
                 closes(i) /\ \A j \in 2..(i - 1) : ~closes(j)
        ELSE 0

\* One line of an env file: [export ]KEY=VALUE, blank, comment, or malformed.
ParseLine(line) ==
    LET body == IF line # << >> /\ line[Len(line)] = NL
                THEN SubSeq(line, 1, Len(line) - 1) ELSE line
        b1   == IF body # << >> /\ body[1] = EXPORT THEN Tail(body) ELSE body
        stops == {i \in 1..Len(b1) : b1[i] \in KeyStop}
        klen == IF stops = {} THEN Len(b1)
                ELSE (CHOOSE i \in stops : \A j \in stops : i <= j) - 1
        key  == SubSeq(b1, 1, klen)
        rest == SubSeq(b1, klen + 1, Len(b1))
        v    == Tail(rest)
        close == ClosingQuote(v)
        bad  == Binding(None, None, TRUE, line)
    IN  IF \A i \in 1..Len(body) : body[i] = " "
        THEN Binding(None, None, FALSE, line)
        ELSE IF b1 # << >> /\ b1[1] = "#"
        THEN Binding(None, None, FALSE, line)
        ELSE IF klen = 0 THEN bad
        ELSE IF rest = << >> THEN Binding(Some(key), None, FALSE, line)
        ELSE IF rest[1] # "=" THEN bad
        ELSE IF v = << >> THEN Binding(Some(key), Some(<< >>), FALSE, line)
        ELSE IF v[1] = QUOTE
        THEN IF close = 0 \/ close # Len(v) THEN bad
             ELSE Binding(Some(key), Some(DecodeEscapes(SubSeq(v, 2, close - 1))),
                          FALSE, line)
        ELSE Binding(Some(key), Some(v), FALSE, line)

\* parse_stream(stream): the bindings of a text, one per line, in file order.
parse_stream(content) ==
    LET lines == SplitLines(content)
    IN  [i \in 1..Len(lines) |-> ParseLine(lines[i])]

\* with_warn_for_invalid_lines(mappings): logs the malformed ones and yields
\* every mapping unchanged; the log is not part of the state.
with_warn_for_invalid_lines(mappings) ==
    [i \in 1..Len(mappings) |-> mappings[i]]

\* --------------------------------------------------------------- set_key
AlnumSymbols == {"1", "2", "3", "A", "B"}

\* str.isalnum()
isalnum(s) == s # << >> /\ \A i \in 1..Len(s) : s[i] \in AlnumSymbols

RECURSIVE EscapeQuotes(_)
\* value.replace("'", "\\'")
EscapeQuotes(s) ==
    IF s = << >> THEN << >>
    ELSE (IF s[1] = QUOTE THEN << BACKSLASH, QUOTE >> ELSE << s[1] >>)
         \o EscapeQuotes(Tail(s))

QuoteModesUnchecked == {"always", "auto", "never", "bogus"}

\* set_key, the quote modes it accepts
ValidQuoteModes == {"always", "auto", "never"}

\* set_key, the output line
line_out(key_to_set, value_to_set, quote_mode, export) ==
    LET quote == quote_mode = "always"
                 \/ (quote_mode = "auto" /\ ~isalnum(value_to_set))
        value_out == IF quote
                     THEN << QUOTE >> \o EscapeQuotes(value_to_set) \o << QUOTE >>
                     ELSE value_to_set
    IN  (IF export THEN << EXPORT >> ELSE << >>)
        \o key_to_set \o << "=" >> \o value_out \o << NL >>

RECURSIVE set_key_loop(_, _, _)
\* set_key, the loop of the body: what it writes to dest for these mappings.
set_key_loop(mappings, key_to_set, line) ==
    IF mappings = << >> THEN << >>
    ELSE (IF Head(mappings).key = Some(key_to_set)
          THEN line
          ELSE Head(mappings).original)
         \o set_key_loop(Tail(mappings), key_to_set, line)

\* set_key, "replaced" after the loop over these mappings
replaced(mappings, key_to_set) ==
    \E i \in 1..Len(mappings) : mappings[i].key = Some(key_to_set)

set_key_body_no_append(mappings, key_to_set, line) ==
    set_key_loop(mappings, key_to_set, line)

\* set_key, everything the body writes to dest
set_key_body(mappings, key_to_set, line) ==
    set_key_loop(mappings, key_to_set, line)
    \o (IF ~replaced(mappings, key_to_set) THEN line ELSE << >>)

\* ------------------------------------------------------------- unset_key
RECURSIVE unset_key_loop_first_only(_, _)
unset_key_loop_first_only(mappings, key_to_unset) ==
    IF mappings = << >> THEN << >>
    ELSE IF Head(mappings).key = Some(key_to_unset)
         THEN Concat([i \in 1..(Len(mappings) - 1) |-> mappings[i + 1].original])
         ELSE Head(mappings).original
              \o unset_key_loop_first_only(Tail(mappings), key_to_unset)

RECURSIVE unset_key_loop(_, _)
\* unset_key, the loop of the body: what it writes to dest for these mappings.
unset_key_loop(mappings, key_to_unset) ==
    IF mappings = << >> THEN << >>
    ELSE (IF Head(mappings).key = Some(key_to_unset)
          THEN << >>
          ELSE Head(mappings).original)
         \o unset_key_loop(Tail(mappings), key_to_unset)

\* unset_key, "removed" after the loop over these mappings
removed(mappings, key_to_unset) ==
    \E i \in 1..Len(mappings) : mappings[i].key = Some(key_to_unset)

\* ----------------------------------------------------------- dictionaries
\* A dict (insertion-ordered) is a sequence of << key, value >> pairs with
\* distinct keys.
DictKeys(d) == { d[i][1] : i \in 1..Len(d) }
Has(d, k) == \E i \in 1..Len(d) : d[i][1] = k
Lookup(d, k) == d[CHOOSE i \in 1..Len(d) : d[i][1] = k][2]
KeyOrder(d) == [i \in 1..Len(d) |-> d[i][1]]

\* d[k] = v as it would be if assignment moved an existing key to the end
DictSetMovesKey(d, k, v) ==
    LET Other(p) == p[1] # k
    IN  Append(SelectSeq(d, Other), << k, v >>)

\* d[k] = v: an existing key keeps its position
DictSet(d, k, v) ==
    IF Has(d, k)
    THEN [i \in 1..Len(d) |-> IF d[i][1] = k THEN << k, v >> ELSE d[i]]
    ELSE Append(d, << k, v >>)

\* dict.update as it would be if keys already present were left alone
RECURSIVE DictUpdateKeepsOld(_, _)
DictUpdateKeepsOld(d, e) ==
    IF e = << >> THEN d
    ELSE DictUpdateKeepsOld(IF Has(d, Head(e)[1]) THEN d
                            ELSE Append(d, Head(e)), Tail(e))

RECURSIVE DictUpdate(_, _)
\* d.update(e), e a dict or an iterable of pairs
DictUpdate(d, e) ==
    IF e = << >> THEN d
    ELSE DictUpdate(DictSet(d, Head(e)[1], Head(e)[2]), Tail(e))

\* {**a, **b}
Merge(a, b) == DictUpdate(DictUpdate(<< >>, a), b)

\* ------------------------------------------------ interpolation (atoms)
\* The reference tokens of a raw value: ${A}, and ${B:-9} with a default.
RefTokens == { "${A}", "${B:-9}" }
RefName(tok) == IF tok = "${A}" THEN "A" ELSE "B"
RefDefault(tok) == IF tok = "${B:-9}" THEN Some(<< "9" >>) ELSE None

\* parse_variables(value): one atom per fragment, covering the value.
parse_variables(value) ==
    [i \in 1..Len(value) |->
        IF value[i] \in RefTokens
        THEN [kind |-> "var", text |-> << >>,
              name |-> RefName(value[i]), default |-> RefDefault(value[i])]
        ELSE [kind |-> "lit", text |-> << value[i] >>,
              name |-> "", default |-> None]]

\* atom.resolve(env)
resolve(atom, env) ==
    IF atom.kind = "lit" THEN atom.text
    ELSE LET default == IF IsSome(atom.default) THEN Get(atom.default) ELSE << >>
             result  == IF Has(env, atom.name) THEN Lookup(env, atom.name)
                        ELSE Some(default)
         IN  IF IsSome(result) THEN Get(result) ELSE << >>

\* ------------------------------------------------------ resolve_variables
\* The lookup environment of one pair as it would be with the layers swapped
resolve_env_swapped(override, base_env, new_values) ==
    IF override THEN Merge(new_values, base_env) ELSE Merge(base_env, new_values)

\* resolve_variables, "env" of one pair
resolve_env(override, base_env, new_values) ==
    IF override THEN Merge(base_env, new_values) ELSE Merge(new_values, base_env)

\* resolve_variables, "result" of one pair
resolve_result(value, override, base_env, new_values) ==
    IF value = None THEN None
    ELSE LET atoms == parse_variables(Get(value))
             env   == resolve_env(override, base_env, new_values)
         IN  Some(Concat([i \in 1..Len(atoms) |-> resolve(atoms[i], env)]))

RECURSIVE resolve_loop(_, _, _, _)
\* resolve_variables, the loop, from these pairs and this new_values on
resolve_loop(values, override, base_env, new_values) ==
    IF values = << >> THEN new_values
    ELSE resolve_loop(Tail(values), override, base_env,
                      DictSet(new_values, Head(values)[1],
                              resolve_result(Head(values)[2], override,
                                             base_env, new_values)))

resolve_variables(values, override, base_env) ==
    resolve_loop(values, override, base_env, << >>)

\* ------------------------------------------------------------------ DotEnv
\* DotEnv.parse: the (key, value) pairs of the bindings that have a key
parse(bindings) ==
    LET HasKey(b) == IsSome(b.key)
        kept == SelectSeq(bindings, HasKey)
    IN  [i \in 1..Len(kept) |-> << Get(kept[i].key), kept[i].value >>]

\* self._dict or {}
DictOrEmpty(self_dict) == IF IsSome(self_dict) THEN Get(self_dict) ELSE << >>

\* update_dict's base_env as it would be with base_env layered on top
update_env_base_wins(self_dict, override, base_env) ==
    Merge(DictOrEmpty(self_dict), base_env)

\* update_dict, the base_env handed to resolve_variables
update_env(self_dict, override, base_env) ==
    IF override
    THEN Merge(base_env, DictOrEmpty(self_dict))
    ELSE Merge(DictOrEmpty(self_dict), base_env)

\* update_dict's mapping as it would be if, without override, a key of
\* base_env kept base_env's value
update_values_base_wins(self_dict, raw_values, interpolate, override, base_env) ==
    LET vals == IF interpolate
                THEN resolve_variables(raw_values, override,
                         IF override
                         THEN Merge(base_env, DictOrEmpty(self_dict))
                         ELSE Merge(DictOrEmpty(self_dict), base_env))
                ELSE raw_values
    IN  [i \in 1..Len(vals) |->
            IF ~override /\ Has(base_env, vals[i][1])
            THEN << vals[i][1], Lookup(base_env, vals[i][1]) >>
            ELSE vals[i]]

\* update_dict, the mapping merged into target_dict
update_values(self_dict, raw_values, interpolate, override, base_env) ==
    IF interpolate
    THEN resolve_variables(raw_values, override,
                           update_env(self_dict, override, base_env))
    ELSE raw_values

\* DotEnv.update_dict: the new self._dict
update_dict(self_dict, raw_values, interpolate, override, base_env) ==
    DictUpdate(DictOrEmpty(self_dict),
               update_values(self_dict, raw_values, interpolate, override,
                             base_env))

RECURSIVE set_env_loop_unguarded(_, _, _)
set_env_loop_unguarded(items, env, override) ==
    IF items = << >> THEN env
    ELSE LET k == Head(items)[1]
             v == Head(items)[2]
         IN  set_env_loop_unguarded(Tail(items),
                                    IF IsSome(v) THEN DictSet(env, k, v) ELSE env,
                                    override)

RECURSIVE set_env_loop(_, _, _)
\* set_as_environment_variables, the loop: os.environ after these items of
\* self.dict() were handled
set_env_loop(items, env, override) ==
    IF items = << >> THEN env
    ELSE LET k == Head(items)[1]
             v == Head(items)[2]
         IN  set_env_loop(Tail(items),
                          IF Has(env, k) /\ ~override THEN env
                          ELSE IF IsSome(v) THEN DictSet(env, k, v)
                          ELSE env,
                          override)

\* ------------------------------------------------------------------ state
VARIABLES
    target,     \* the file at dotenv_path: None, or Some(its content)
    tmpdir,     \* the temporary directory: name -> None or Some(content)
    dest,       \* rewrite's local "dest": 0 when unbound, else the temp's name
    pc,         \* where the running call stands
    call,       \* the running (or last) call and its arguments
    err,        \* the exception in flight inside rewrite
    result,     \* how the last call ended
    pre,        \* target as it was when the running call was entered
    ncalls,     \* calls made so far
    \* the merge engine
    api,        \* the entry point in use
    environ,    \* os.environ, the ambient environment
    base_env,   \* the DotEnv object's base_env
    override,   \* the DotEnv object's override
    interpolate, \* the DotEnv object's interpolate
    d_dict,     \* the DotEnv object's _dict: None, or Some(dict)
    d_own,      \* what the own source of "result" yields when parsed again
    nsrc,       \* sources applied so far
    mpc,        \* where the entry point stands
    ret,        \* the mapping returned: None, or Some(dict)
    last_src,   \* the raw pairs of the last update_dict call
    prev_dict,  \* _dict as it was before the last update_dict call
    rv,         \* the last resolve_variables call: arguments and result
    lastdef,    \* key -> the value the last source defining it resolved it to
    lastraw,    \* key -> its last raw value in the last source defining it
    first_order, \* the keys in the order of their first definition
    \* mutators and readers racing on one path
    proc,       \* process -> where its call stands, the call, its temp file
    same_fs,    \* the temporary directory is on the file system of the path
    complete,   \* the original content and the output of each commit
    last_commit, \* the output of the transaction that committed last
    seen        \* what a reader last read at the path

fsvars == << target, tmpdir, dest, pc, call, err, result, pre, ncalls >>
mvars == << api, environ, base_env, override, interpolate, d_dict, d_own, nsrc, mpc,
            ret, last_src, prev_dict, rv, lastdef, lastraw, first_order >>
cvars == << proc, same_fs, complete, last_commit, seen >>
vars == << fsvars, mvars, cvars >>

Keys == { << "A" >>, << "B" >> }
Values == { << "3" >>, << "3", " ", QUOTE >> }
QuoteModes == ValidQuoteModes \cup {"bogus"}

LineBodies ==
    { << "A", "=", "1" >>, << "B", "=", "2" >>, << "#", "c" >>,
      << "=", "1" >>, << >>, << "B", "=", "2", CR >> }

\* An env file of these line bodies; the last line is terminated iff term.
FileOf(bodies, term) ==
    Concat([i \in 1..Len(bodies) |->
               bodies[i] \o (IF i < Len(bodies) \/ term THEN << NL >> ELSE << >>)])

InitContents ==
    { FileOf(bodies, term) :
        bodies \in UNION { [1..n -> LineBodies] : n \in 0..MaxLines },
        term \in BOOLEAN }

NoCall == [name |-> "none", key |-> << >>, value |-> << >>,
           quote_mode |-> "always", export |-> FALSE]
\* How a call ended: the first element of the tuple it returned and the
\* rest of that tuple, or the exception it raised.
NoResult == [kind |-> "none", val |-> "none", rest |-> << >>]
Return(v, rest) == [kind |-> "return", val |-> v, rest |-> rest]
Raise(e) == [kind |-> "raise", val |-> e, rest |-> << >>]

FileInit ==
    /\ target \in {None} \cup { Some(c) : c \in InitContents }
    /\ tmpdir = [n \in 1..MaxCalls |-> None]
    /\ dest = 0
    /\ pc = "idle"
    /\ call = NoCall
    /\ err = "none"
    /\ result = NoResult
    /\ pre = None
    /\ ncalls = 0

\* os.path.isfile(path) of the target
isfile == IsSome(target)

exists_unchecked == TRUE

\* os.path.exists(dotenv_path) of the target
exists == IsSome(target)

\* set_key up to the entry of rewrite
SetKeyCall(k, v, qm, ex) ==
    /\ pc = "idle"
    /\ ncalls < MaxCalls
    /\ ncalls' = ncalls + 1
    /\ call' = [name |-> "set_key", key |-> k, value |-> v,
                quote_mode |-> qm, export |-> ex]
    /\ pre' = target
    /\ dest' = 0
    /\ err' = "none"
    /\ IF qm \notin ValidQuoteModes
       THEN /\ result' = Raise("ValueError")
            /\ pc' = "idle"
       ELSE /\ result' = NoResult
            /\ pc' = "enter"
    /\ UNCHANGED << target, tmpdir, mvars, cvars >>

\* unset_key up to the entry of rewrite
UnsetKeyCall(k) ==
    /\ pc = "idle"
    /\ ncalls < MaxCalls
    /\ ncalls' = ncalls + 1
    /\ call' = [name |-> "unset_key", key |-> k, value |-> << >>,
                quote_mode |-> "always", export |-> FALSE]
    /\ pre' = target
    /\ dest' = 0
    /\ err' = "none"
    /\ IF ~exists
       THEN /\ result' = Return("None", << k >>)
            /\ pc' = "idle"
       ELSE /\ result' = NoResult
            /\ pc' = "enter"
    /\ UNCHANGED << target, tmpdir, mvars, cvars >>

\* rewrite: create the missing target, empty; the open or the write may fail
RewriteCreateTarget ==
    /\ pc = "enter"
    /\ IF isfile
       THEN /\ pc' = "mktemp"
            /\ UNCHANGED << target, err >>
       ELSE \/ /\ target' = Some(<< >>)
               /\ pc' = "mktemp"
               /\ UNCHANGED err
            \/ /\ pc' = "except"
               /\ err' = "OSError"
               /\ UNCHANGED target
    /\ UNCHANGED << tmpdir, dest, call, result, pre, ncalls, mvars, cvars >>

\* rewrite: tempfile.NamedTemporaryFile(mode="w+", delete=False) as dest
RewriteMkTemp ==
    /\ pc = "mktemp"
    /\ \/ /\ tmpdir' = [tmpdir EXCEPT ![ncalls] = Some(<< >>)]
          /\ dest' = ncalls
          /\ pc' = "open"
          /\ UNCHANGED err
       \/ /\ pc' = "except"
          /\ err' = "OSError"
          /\ UNCHANGED << tmpdir, dest >>
    /\ UNCHANGED << target, call, result, pre, ncalls, mvars, cvars >>

\* rewrite: io.open(path) as source
RewriteOpenSource ==
    /\ pc = "open"
    /\ \/ /\ isfile
          /\ pc' = "body"
          /\ UNCHANGED err
       \/ /\ pc' = "except"
          /\ err' = "OSError"
    /\ UNCHANGED << target, tmpdir, dest, call, result, pre, ncalls, mvars, cvars >>

\* What the body of the running call writes for these mappings.
BodyLoop(mappings) ==
    IF call.name = "set_key"
    THEN set_key_loop(mappings, call.key,
                      line_out(call.key, call.value, call.quote_mode, call.export))
    ELSE unset_key_loop(mappings, call.key)

\* Everything the body of call c writes to dest for these mappings.
BodyAllOf(c, mappings) ==
    IF c.name = "set_key"
    THEN set_key_body(mappings, c.key,
                      line_out(c.key, c.value, c.quote_mode, c.export))
    ELSE unset_key_loop(mappings, c.key)

BodyAll(mappings) == BodyAllOf(call, mappings)

\* The bytes the body of the running call, run to its end, leaves in dest
\* when source holds these bytes.
BodyOutputOf(c, bytes) ==
    WriteText(BodyAllOf(c, with_warn_for_invalid_lines(
                               parse_stream(ReadText(bytes)))))

BodyOutput(bytes) == BodyOutputOf(call, bytes)

\* The body of set_key / unset_key inside "with rewrite(...)", run to its end.
Body ==
    /\ pc = "body"
    /\ tmpdir' = [tmpdir EXCEPT ![dest] = Some(BodyOutput(Get(target)))]
    /\ pc' = "move"
    /\ UNCHANGED << target, dest, call, err, result, pre, ncalls, mvars, cvars >>

\* The body raising (a read or a write failing) after n mappings were handled.
BodyFails ==
    /\ pc = "body"
    /\ LET mappings == with_warn_for_invalid_lines(
                           parse_stream(ReadText(Get(target))))
       IN  \E n \in 0..Len(mappings) :
               tmpdir' = [tmpdir EXCEPT
                             ![dest] = Some(WriteText(
                                            BodyLoop(SubSeq(mappings, 1, n))))]
    /\ pc' = "except"
    /\ err' = "BodyError"
    /\ UNCHANGED << target, dest, call, result, pre, ncalls, mvars, cvars >>

\* rewrite: except BaseException: unlink dest if it is a file, and re-raise.
\* Naming dest while it is unbound raises UnboundLocalError instead.
RewriteExcept ==
    /\ pc = "except"
    /\ IF dest = 0
       THEN /\ result' = Raise("UnboundLocalError")
            /\ UNCHANGED tmpdir
       ELSE /\ tmpdir' = [tmpdir EXCEPT ![dest] = None]
            /\ result' = Raise(err)
    /\ pc' = "idle"
    /\ err' = "none"
    /\ UNCHANGED << target, dest, call, pre, ncalls, mvars, cvars >>

\* What the running call returns once rewrite has committed.
ReturnValue ==
    IF call.name = "set_key" THEN Return("True", << call.key, call.value >>)
    ELSE IF removed(parse_stream(ReadText(Get(pre))), call.key)
         THEN Return("True", << call.key >>)
         ELSE Return("None", << call.key >>)

\* rewrite: else: shutil.move(dest.name, path), and the call's return
RewriteMove ==
    /\ pc = "move"
    /\ target' = tmpdir[dest]
    /\ tmpdir' = [tmpdir EXCEPT ![dest] = None]
    /\ result' = ReturnValue
    /\ pc' = "idle"
    /\ UNCHANGED << dest, call, err, pre, ncalls, mvars, cvars >>

\* shutil.move failing: the else clause is outside the try, so the error
\* leaves rewrite as it is.
RewriteMoveFails ==
    /\ pc = "move"
    /\ result' = Raise("OSError")
    /\ pc' = "idle"
    /\ UNCHANGED << target, tmpdir, dest, call, err, pre, ncalls, mvars, cvars >>

\* ------------------------------------------------- merge engine: state
MKeys == {"A", "B"}

MBinding(key, value) == [key |-> key, value |-> value]

\* The bindings with a key and a value that sources are made of.
MBindings ==
    { MBinding(Some("A"), Some(<< "1" >>)),
      MBinding(Some("A"), Some(<< "2" >>)),
      MBinding(Some("B"), Some(<< "${A}" >>)) }

\* A key without a value, and a line without a key (comment or blank).
NoValue == MBinding(Some("A"), None)
NoKey == MBinding(None, None)

\* The sources: up to MaxPairs bindings each, and a few holding a key
\* without a value or a line without a key.
Sources ==
    UNION { [1..n -> MBindings] : n \in 0..MaxPairs }
    \cup { << NoKey >>, << NoValue >>,
           << NoKey, MBinding(Some("A"), Some(<< "1" >>)) >>,
           << NoValue, MBinding(Some("B"), Some(<< "${A}" >>)) >>,
           << MBinding(Some("B"), Some(<< "x", "${B:-9}" >>)) >> }

BaseEnvs ==
    { << >>,
      << << "A", Some(<< "9" >>) >> >>,
      << << "B", Some(<< "8" >>) >>, << "A", Some(<< "9" >>) >> >> }

ChainOverrideOff == FALSE

\* chained_dotenv_values: the override of every DotEnv object it makes
ChainOverride == TRUE

Apis == {"dotenv_values", "chained_dotenv_values", "DotEnv", "load_dotenv"}

NoRv == [called |-> FALSE, values |-> << >>, override |-> FALSE,
         base_env |-> << >>, out |-> << >>]

Undefined == [k \in MKeys |-> None]

MergeIdle ==
    /\ api = "none"
    /\ environ = << >>
    /\ base_env = << >>
    /\ override = FALSE
    /\ interpolate = FALSE
    /\ d_dict = None
    /\ d_own = << >>
    /\ nsrc = 0
    /\ mpc = "start"
    /\ ret = None
    /\ last_src = << >>
    /\ prev_dict = None
    /\ rv = NoRv
    /\ lastdef = Undefined
    /\ lastraw = Undefined
    /\ first_order = << >>

FileIdle ==
    /\ target = None
    /\ tmpdir = [n \in 1..MaxCalls |-> None]
    /\ dest = 0
    /\ pc = "idle"
    /\ call = NoCall
    /\ err = "none"
    /\ result = NoResult
    /\ pre = None
    /\ ncalls = 0

MergeInit ==
    /\ api \in Apis
    /\ base_env \in BaseEnvs
    /\ environ = base_env
    /\ override \in (IF api = "chained_dotenv_values" THEN {ChainOverride}
                     ELSE BOOLEAN)
    /\ interpolate \in BOOLEAN
    /\ d_dict = None
    /\ d_own = << >>
    /\ nsrc = 0
    /\ mpc = "start"
    /\ ret = None
    /\ last_src = << >>
    /\ prev_dict = None
    /\ rv = NoRv
    /\ lastdef = Undefined
    /\ lastraw = Undefined
    /\ first_order = << >>

\* ----------------------------------------------- merge engine: history
\* The last value paired with key k in these pairs.
LastOf(pairs, k) ==
    pairs[CHOOSE i \in 1..Len(pairs) :
              pairs[i][1] = k /\ \A j \in (i + 1)..Len(pairs) : pairs[j][1] # k][2]

Defines(pairs, k) == \E i \in 1..Len(pairs) : pairs[i][1] = k

RECURSIVE AppendNew(_, _)
\* order, followed by the keys of pairs it does not hold, as they come
AppendNew(order, pairs) ==
    IF pairs = << >> THEN order
    ELSE AppendNew(IF \E i \in 1..Len(order) : order[i] = Head(pairs)[1]
                   THEN order ELSE Append(order, Head(pairs)[1]),
                   Tail(pairs))

\* The history of one update_dict(raw_values) call on the object.
Record(raw_values) ==
    LET vals == update_values(d_dict, raw_values, interpolate, override, base_env)
    IN  /\ last_src' = raw_values
        /\ prev_dict' = d_dict
        /\ rv' = IF interpolate
                 THEN [called |-> TRUE, values |-> raw_values,
                       override |-> override,
                       base_env |-> update_env(d_dict, override, base_env),
                       out |-> vals]
                 ELSE NoRv
        /\ lastdef' = [k \in MKeys |->
                          IF Defines(vals, k) THEN Some(LastOf(vals, k))
                          ELSE lastdef[k]]
        /\ lastraw' = [k \in MKeys |->
                          IF Defines(raw_values, k)
                          THEN Some(LastOf(raw_values, k))
                          ELSE lastraw[k]]
        /\ first_order' = AppendNew(first_order, raw_values)

\* ----------------------------------------------- merge engine: actions
\* if self._dict: (a dict that is None or empty is falsy)
Truthy(self_dict) == IsSome(self_dict) /\ Get(self_dict) # << >>

\* DotEnv(...).dict() on a fresh object, whose _dict is None, for a source
\* that parses to these pairs
fresh_dict(raw_values, interp, ovr, env) ==
    update_dict(None, raw_values, interp, ovr, env)

\* dotenv_values(...): DotEnv(...).dict() on a fresh object
dotenv_values(src) ==
    /\ api = "dotenv_values"
    /\ mpc = "start"
    /\ LET raw_values == parse(src)
       IN  /\ d_dict' = Some(fresh_dict(raw_values, interpolate, override,
                                        base_env))
           /\ Record(raw_values)
    /\ ret' = d_dict'
    /\ nsrc' = 1
    /\ mpc' = "done"
    /\ UNCHANGED << api, environ, base_env, override, interpolate, d_own, fsvars, cvars >>

\* load_dotenv(...): DotEnv(...).set_as_environment_variables() on a fresh
\* object, whose base_env is os.environ itself
load_dotenv(src) ==
    /\ api = "load_dotenv"
    /\ mpc = "start"
    /\ LET raw_values == parse(src)
       IN  /\ d_dict' = Some(update_dict(d_dict, raw_values, interpolate,
                                         override, base_env))
           /\ Record(raw_values)
    /\ environ' = set_env_loop(Get(d_dict'), environ, override)
    /\ base_env' = environ'
    /\ nsrc' = 1
    /\ mpc' = "done"
    /\ UNCHANGED << api, override, interpolate, d_own, ret, fsvars, cvars >>

\* DotEnv.update_dict(raw_values) called on a DotEnv object
DotEnvUpdateDict(src) ==
    /\ api = "DotEnv"
    /\ nsrc < MaxSources
    /\ LET raw_values == parse(src)
       IN  /\ d_dict' = Some(update_dict(d_dict, raw_values, interpolate,
                                         override, base_env))
           /\ Record(raw_values)
    /\ ret' = d_dict'
    /\ nsrc' = nsrc + 1
    /\ UNCHANGED << api, environ, base_env, override, interpolate, d_own, mpc, fsvars, cvars >>

\* chained_dotenv_values: an empty list of sources, or one holding None
ChainReject ==
    /\ api = "chained_dotenv_values"
    /\ mpc = "start"
    /\ nsrc = 0
    /\ mpc' = "raised"
    /\ UNCHANGED << api, environ, base_env, override, interpolate, d_dict,
                    d_own, nsrc,
                    ret, last_src, prev_dict, rv, lastdef, lastraw,
                    first_order, fsvars, cvars >>

\* chained_dotenv_values: the first turn of the loop, where "result" is
\* still None and becomes "cur".  The source of "cur" becomes the own source
\* of "result"; a stream is used up by parse, and the own source is kept
\* only while _dict is falsy, the one case in which dict() parses it again.
ChainFirst(src, is_stream) ==
    /\ api = "chained_dotenv_values"
    /\ mpc = "start"
    /\ nsrc < MaxSources
    /\ LET raw_values == parse(src)
       IN  /\ d_dict' = Some(update_dict(d_dict, raw_values, interpolate,
                                         override, base_env))
           /\ Record(raw_values)
    /\ d_own' = IF Truthy(d_dict') \/ is_stream THEN << >> ELSE src
    /\ nsrc' = nsrc + 1
    /\ mpc' = "loop"
    /\ UNCHANGED << api, environ, base_env, override, interpolate, ret, fsvars, cvars >>

\* chained_dotenv_values: a later turn of the loop: result.update_dict(cur.parse())
ChainStep(src) ==
    /\ api = "chained_dotenv_values"
    /\ mpc = "loop"
    /\ nsrc < MaxSources
    /\ LET raw_values == parse(src)
       IN  /\ d_dict' = Some(update_dict(d_dict, raw_values, interpolate,
                                         override, base_env))
           /\ Record(raw_values)
    /\ d_own' = IF Truthy(d_dict') THEN << >> ELSE d_own
    /\ nsrc' = nsrc + 1
    /\ UNCHANGED << api, environ, base_env, override, interpolate, mpc, ret, fsvars, cvars >>

\* chained_dotenv_values: return result.dict()
ChainReturn ==
    /\ api = "chained_dotenv_values"
    /\ mpc = "loop"
    /\ IF Truthy(d_dict)
       THEN /\ ret' = d_dict
            /\ UNCHANGED << d_dict, last_src, prev_dict, rv, lastdef, lastraw,
                            first_order >>
       ELSE LET raw_values == parse(d_own)
            IN  /\ d_dict' = Some(update_dict(d_dict, raw_values, interpolate,
                                              override, base_env))
                /\ Record(raw_values)
                /\ ret' = d_dict'
    /\ mpc' = "done"
    /\ UNCHANGED << api, environ, base_env, override, interpolate, d_own, nsrc, fsvars, cvars >>

\* ------------------------------------- mutators and readers on one path
Procs == 1..MaxProcs

IdleProc == [pc |-> "idle", call |-> NoCall, dest |-> None]

Unread == [read |-> FALSE, content |-> << >>]

RaceIdle ==
    /\ proc = [p \in Procs |-> IdleProc]
    /\ same_fs = TRUE
    /\ complete = {}
    /\ last_commit = None
    /\ seen = Unread

\* The calls that race.
RaceCalls ==
    { [name |-> "set_key", key |-> k, value |-> << "3" >>,
       quote_mode |-> "always", export |-> FALSE] : k \in Keys }
    \cup { [name |-> "unset_key", key |-> << "A" >>, value |-> << >>,
            quote_mode |-> "always", export |-> FALSE] }

\* The files the race starts from: none, or one with a binding of A.
RaceFiles ==
    { None, Some(FileOf(<< << "A", "=", "1" >> >>, TRUE)) }

RaceInit ==
    /\ target \in RaceFiles
    /\ tmpdir = [n \in 1..MaxCalls |-> None]
    /\ dest = 0
    /\ pc = "idle"
    /\ call = NoCall
    /\ err = "none"
    /\ result = NoResult
    /\ pre = None
    /\ ncalls = 0
    /\ proc = [p \in Procs |-> IdleProc]
    /\ same_fs \in BOOLEAN
    /\ complete = { Text(target) }
    /\ last_commit = None
    /\ seen = Unread

\* The variables of the single caller of Spec, which stands idle in a race.
seqvars == << tmpdir, dest, pc, call, err, result, pre, ncalls >>

\* Process p calls set_key or unset_key; unset_key returns at once when the
\* path does not exist.
MutatorCall(p, c) ==
    /\ proc[p].pc = "idle"
    /\ proc' = [proc EXCEPT ![p] =
                   [pc |-> IF c.name = "unset_key" /\ ~exists
                           THEN "done" ELSE "enter",
                    call |-> c, dest |-> None]]
    /\ UNCHANGED << target, same_fs, complete, last_commit, seen, seqvars, mvars >>

\* rewrite in process p: the missing target is created, empty
MutatorCreateTarget(p) ==
    /\ proc[p].pc = "enter"
    /\ target' = IF isfile THEN target ELSE Some(<< >>)
    /\ proc' = [proc EXCEPT ![p].pc = "mktemp"]
    /\ UNCHANGED << same_fs, complete, last_commit, seen, seqvars, mvars >>

\* rewrite in process p: NamedTemporaryFile(mode="w+", delete=False) as dest
MutatorMkTemp(p) ==
    /\ proc[p].pc = "mktemp"
    /\ proc' = [proc EXCEPT ![p].pc = "body", ![p].dest = Some(<< >>)]
    /\ UNCHANGED << target, same_fs, complete, last_commit, seen, seqvars, mvars >>

\* Process p opens the path, and its body reads it and writes dest.
MutatorBody(p) ==
    /\ proc[p].pc = "body"
    /\ isfile
    /\ proc' = [proc EXCEPT
                   ![p].pc = "move",
                   ![p].dest = Some(BodyOutputOf(proc[p].call, Get(target)))]
    /\ UNCHANGED << target, same_fs, complete, last_commit, seen, seqvars, mvars >>

\* The history of the commit of these bytes.
Commit(bytes) ==
    /\ complete' = complete \cup { bytes }
    /\ last_commit' = Some(bytes)

\* shutil.move in process p when dest is on the file system of the path:
\* os.rename puts dest in the place of the target in one step.
MutatorRename(p) ==
    /\ proc[p].pc = "move"
    /\ same_fs
    /\ target' = proc[p].dest
    /\ Commit(Get(proc[p].dest))
    /\ proc' = [proc EXCEPT ![p].pc = "done", ![p].dest = None]
    /\ UNCHANGED << same_fs, seen, seqvars, mvars >>

\* shutil.move in process p when os.rename fails for dest being on another
\* file system: it copies dest to the path, and the copy opens the target
\* for writing, which truncates it.
MutatorCopyOpen(p) ==
    /\ proc[p].pc = "move"
    /\ ~same_fs
    /\ target' = Some(<< >>)
    /\ proc' = [proc EXCEPT ![p].pc = "copy"]
    /\ UNCHANGED << same_fs, complete, last_commit, seen, seqvars, mvars >>

\* What a file holding old holds after new was written at its start.
Overwrite(old, new) == new \o SubSeq(old, Len(new) + 1, Len(old))

\* shutil.move in process p, the copy: the bytes of dest are written from the
\* start of the target, and dest is unlinked.
MutatorCopyWrite(p) ==
    /\ proc[p].pc = "copy"
    /\ target' = Some(Overwrite(Text(target), Get(proc[p].dest)))
    /\ Commit(Get(proc[p].dest))
    /\ proc' = [proc EXCEPT ![p].pc = "done", ![p].dest = None]
    /\ UNCHANGED << same_fs, seen, seqvars, mvars >>

\* A reader (DotEnv._get_stream) reads the path; a path that is no file
\* reads as the empty text.
Reader ==
    /\ seen' = [read |-> TRUE, content |-> IF isfile THEN Get(target) ELSE << >>]
    /\ UNCHANGED << target, proc, same_fs, complete, last_commit, seqvars, mvars >>

Init == FileInit /\ MergeIdle /\ RaceIdle

Next ==
    \/ \E k \in Keys, v \in Values, qm \in QuoteModes, ex \in BOOLEAN :
           SetKeyCall(k, v, qm, ex)
    \/ \E k \in Keys : UnsetKeyCall(k)
    \/ RewriteCreateTarget
    \/ RewriteMkTemp
    \/ RewriteOpenSource
    \/ Body
    \/ BodyFails
    \/ RewriteExcept
    \/ RewriteMove
    \/ RewriteMoveFails

\* The key mutators on one env file.
Spec == Init /\ [][Next]_vars

InitMerge == MergeInit /\ FileIdle /\ RaceIdle

NextMerge ==
    \/ \E src \in Sources : dotenv_values(src)
    \/ \E src \in Sources : load_dotenv(src)
    \/ \E src \in Sources : DotEnvUpdateDict(src)
    \/ ChainReject
    \/ \E src \in Sources, is_stream \in BOOLEAN : ChainFirst(src, is_stream)
    \/ \E src \in Sources : ChainStep(src)
    \/ ChainReturn

\* The merge engine on one DotEnv object.
SpecMerge == InitMerge /\ [][NextMerge]_vars

InitRace == RaceInit /\ MergeIdle

NextRace ==
    \/ \E p \in Procs, c \in RaceCalls : MutatorCall(p, c)
    \/ \E p \in Procs : MutatorCreateTarget(p)
    \/ \E p \in Procs : MutatorMkTemp(p)
    \/ \E p \in Procs : MutatorBody(p)
    \/ \E p \in Procs : MutatorRename(p)
    \/ \E p \in Procs : MutatorCopyOpen(p)
    \/ \E p \in Procs : MutatorCopyWrite(p)
    \/ Reader

\* Mutators and readers racing on one path.
SpecRace == InitRace /\ [][NextRace]_vars

\* ------------------------------------------------------------------ claims
\* The call that was running has ended.
Returned(name) == pc = "idle" /\ call.name = name /\ result.kind = "return"

\* The bytes the call found at its entry; a missing file has none.
BeforeBytes == Text(pre)

\* The text the call found at its entry, as a text stream reads it.
Before == ReadText(BeforeBytes)

\* The lines of a text whose binding key differs from k.
OtherLines(content, k) ==
    LET Other(line) == ParseLine(line).key # Some(k)
    IN  SelectSeq(SplitLines(content), Other)

RECURSIVE IsSubseq(_, _)
\* a is b with some elements left out
IsSubseq(a, b) ==
    IF a = << >> THEN TRUE
    ELSE IF b = << >> THEN FALSE
    ELSE IF Head(a) = Head(b) THEN IsSubseq(Tail(a), Tail(b))
    ELSE IsSubseq(a, Tail(b))

\* The bindings of a text for key k.
BindingsOf(content, k) ==
    LET Mine(b) == b.key = Some(k)
    IN  SelectSeq(parse_stream(content), Mine)

Bound(content, k) == BindingsOf(content, k) # << >>

\* The value a load of the text gives k: that of its last binding.
ValueOf(content, k) ==
    LET bs == BindingsOf(content, k) IN bs[Len(bs)].value

\* C1: when the body of a rewrite transaction fails, the target path is
\* afterwards as it was when the transaction was entered: same existence,
\* same content.
C1_BodyFailureLeavesTarget ==
    (pc = "idle" /\ result = Raise("BodyError")) => target = pre

\* C2: once a call has ended, on whatever exit path, no temporary file of a
\* rewrite transaction exists any more.
C2_NoTempFileLeft ==
    pc = "idle" => \A n \in DOMAIN tmpdir : tmpdir[n] = None

\* C5: after set_key or unset_key, every line of the original file whose
\* binding key differs from the target key is a line of the rewritten file,
\* byte-identical and in the same relative order.
C5_OtherLinesPreserved ==
    (Returned("set_key") \/ (Returned("unset_key") /\ IsSome(pre)))
    => IsSubseq(OtherLines(Before, call.key), SplitLines(Text(target)))

\* C6: after set_key(path, K, V) the file holds the new line for K as a line
\* of its own, in place of each line binding K or else after all original
\* lines; parsed again, K has value V and every other key its old value.
C6_SetKeyWritesOwnLine ==
    Returned("set_key")
    => LET old  == SplitLines(Before)
           line == line_out(call.key, call.value, call.quote_mode, call.export)
           new  == Text(target)
       IN  /\ SplitLines(new) =
                  IF Bound(Before, call.key)
                  THEN [i \in 1..Len(old) |->
                           IF ParseLine(old[i]).key = Some(call.key)
                           THEN line ELSE old[i]]
                  ELSE Append(old, line)
           /\ Bound(new, call.key)
           /\ ValueOf(new, call.key) = Some(call.value)
           /\ \A k \in Keys \ {call.key} :
                  Bound(Before, k)
                  => Bound(new, k) /\ ValueOf(new, k) = ValueOf(Before, k)

\* C10: unset_key on an existing file holding one or more bindings for K
\* reports success, and the rewritten file holds no binding for K.
C10_UnsetDropsEveryBinding ==
    (Returned("unset_key") /\ IsSome(pre) /\ Bound(Before, call.key))
    => /\ result.val = "True"
       /\ IsSome(target)
       /\ ~Bound(Text(target), call.key)

\* C10's case: a file with two bindings for K, after unset_key(K).
C10_Witness ==
    /\ Returned("unset_key")
    /\ IsSome(pre)
    /\ Len(BindingsOf(Before, call.key)) = 2
    /\ result.val = "True"

\* The running (or last) call has no temporary file: the one it would create
\* is the one named after the call.
NoTempOfCall == tmpdir[ncalls] = None

\* C11: unset_key(path, K) on an existing file that holds no binding for K
\* returns the "not removed" result, the transaction commits, and the bytes
\* of the file are afterwards those it had before the call.
C11_UnsetAbsentKeyKeepsBytes ==
    (Returned("unset_key") /\ IsSome(pre) /\ ~Bound(Before, call.key))
    => /\ result = Return("None", << call.key >>)
       /\ target = pre

\* C12: unset_key on a path that does not exist returns the negative result
\* without raising and without entering a transaction: the target is not
\* created and no temporary file is created.
C12_UnsetMissingFileNoEffect ==
    (call.name = "unset_key" /\ pre = None)
    => /\ pc = "idle"
       /\ result = Return("None", << call.key >>)
       /\ target = None
       /\ NoTempOfCall

\* C12's case: unset_key was called on a missing path and has returned.
C12_Witness ==
    /\ Returned("unset_key")
    /\ pre = None
    /\ ncalls >= 1

C15_BadQuoteModeFailsFast ==
    (call.name = "set_key" /\ call.quote_mode \notin {"always", "auto", "never"})
    => /\ pc = "idle"
       /\ result = Raise("ValueError")
       /\ target = pre
       /\ NoTempOfCall

\* C15's case: set_key with an unknown quote_mode on an existing file that
\* has content.
C15_Witness ==
    /\ call.name = "set_key"
    /\ call.quote_mode = "bogus"
    /\ result.kind = "raise"
    /\ IsSome(pre)
    /\ Get(pre) # << >>

\* C17: a failure inside a rewrite transaction, raised by the body or by an
\* I/O step of rewrite itself, leaves the call as that same error once the
\* except clause has run.
C17_FailurePropagatesUnchanged ==
    [][ (pc = "except" /\ pc' = "idle") => result' = Raise(err) ]_vars

\* C18: set_key is idempotent: once set_key has committed, the file a second
\* set_key with the same arguments writes and commits has exactly the
\* content the first one left.
C18_SetKeyIdempotent ==
    Returned("set_key") => BodyOutput(Get(target)) = Get(target)

\* ---------------------------------------------------- claims: merge engine
RefFree(value) ==
    value = None \/ \A i \in 1..Len(Get(value)) : Get(value)[i] \notin RefTokens

Earlier(x, j) == { i \in 1..(j - 1) : rv.values[i][1] = x }
Latest(S) == CHOOSE i \in S : \A h \in S : h <= i

RECURSIVE C4_Expected(_)
\* What pair j of the last resolve_variables call resolves to when each
\* reference sees only base_env and the pairs before it, the earlier pair
\* winning over base_env exactly when override is true.
C4_Expected(j) ==
    LET value == rv.values[j][2]
        Seen(tok) ==
            LET x == RefName(tok)
                E == Earlier(x, j)
            IN  IF E # {} /\ (rv.override \/ ~Has(rv.base_env, x))
                THEN Text(C4_Expected(Latest(E)))
                ELSE IF Has(rv.base_env, x) THEN Text(Lookup(rv.base_env, x))
                ELSE Text(RefDefault(tok))
    IN  IF value = None THEN None
        ELSE Some(Concat([i \in 1..Len(Get(value)) |->
                     IF Get(value)[i] \in RefTokens
                     THEN Seen(Get(value)[i]) ELSE << Get(value)[i] >>]))

\* Pair j is the last pair of its key in these pairs.
IsLastOfKey(pairs, j) ==
    \A h \in (j + 1)..Len(pairs) : pairs[h][1] # pairs[j][1]

\* C4: in resolve_variables a reference to X that is in base_env and defined
\* by an earlier pair resolves to the earlier pair's resolved value when
\* override is true and to base_env's value when it is false; a pair defined
\* later is never visible.
C4_ReferencePrecedence ==
    rv.called
    => \A j \in 1..Len(rv.values) :
           IsLastOfKey(rv.values, j)
           => /\ Has(rv.out, rv.values[j][1])
              /\ Lookup(rv.out, rv.values[j][1]) = C4_Expected(j)

\* C4's case: B=${A} after A=1, with A=9 in base_env and A redefined by no
\* later pair; under override B is "1".
C4_Witness ==
    /\ rv.called
    /\ rv.override
    /\ rv.values = << << "A", Some(<< "1" >>) >>, << "B", Some(<< "${A}" >>) >> >>
    /\ Has(rv.base_env, "A")
    /\ Lookup(rv.base_env, "A") = Some(<< "9" >>)
    /\ Lookup(rv.out, "B") = Some(<< "1" >>)

\* C7: the mapping chained_dotenv_values returns gives each key the value
\* resolved by the last source that defines it (the literal itself when that
\* value has no reference), and keeps the keys of earlier sources.
C7_LastSourceWins ==
    (api = "chained_dotenv_values" /\ mpc = "done")
    => /\ IsSome(ret)
       /\ \A k \in MKeys :
              /\ Has(Get(ret), k) <=> IsSome(lastdef[k])
              /\ Has(Get(ret), k)
                 => /\ Lookup(Get(ret), k) = Get(lastdef[k])
                    /\ (RefFree(Get(lastraw[k])) \/ ~interpolate)
                       => Lookup(Get(ret), k) = Get(lastraw[k])

\* C7's case: two sources, the second redefining A and leaving B, which only
\* the first defines.
C7_Witness ==
    /\ api = "chained_dotenv_values"
    /\ mpc = "done"
    /\ nsrc = 2
    /\ IsSome(prev_dict)
    /\ Has(Get(prev_dict), "A") /\ Has(Get(prev_dict), "B")
    /\ Lookup(Get(prev_dict), "A") = Some(<< "1" >>)
    /\ last_src = << << "A", Some(<< "2" >>) >> >>
    /\ Has(base_env, "A")
    /\ Lookup(Get(ret), "A") = Some(<< "2" >>)
    /\ Lookup(Get(ret), "B") = Lookup(Get(prev_dict), "B")

\* The references of pair j of the last source all name keys that the running
\* aggregate and base_env both hold and that no earlier pair of the source
\* defines.
C8_Case(j) ==
    LET value == last_src[j][2]
        refs == { i \in 1..Len(Text(value)) : Get(value)[i] \in RefTokens }
    IN  /\ refs # {}
        /\ \A i \in refs :
               LET x == RefName(Get(value)[i])
               IN  /\ Has(Get(prev_dict), x)
                   /\ Has(base_env, x)
                   /\ \A h \in 1..(j - 1) : last_src[h][1] # x

\* C8: in chained_dotenv_values a reference, in a source after the first, to
\* a key defined by an earlier source and present in base_env, and not defined
\* earlier in the same source, resolves to the running aggregate's value.
C8_AggregateBeforeBaseEnv ==
    (api = "chained_dotenv_values" /\ mpc = "loop" /\ nsrc >= 2 /\ interpolate)
    => \A j \in 1..Len(last_src) :
           (IsLastOfKey(last_src, j) /\ C8_Case(j))
           => /\ Has(Get(d_dict), last_src[j][1])
              /\ Lookup(Get(d_dict), last_src[j][1]) =
                     Some(Concat([i \in 1..Len(Get(last_src[j][2])) |->
                         LET tok == Get(last_src[j][2])[i]
                         IN  IF tok \in RefTokens
                             THEN Text(Lookup(Get(prev_dict), RefName(tok)))
                             ELSE << tok >>]))

\* C8's case: A=9 in base_env, A=1 from the first source, B=${A} in the
\* second: B is "1".
C8_Witness ==
    /\ api = "chained_dotenv_values"
    /\ mpc = "loop"
    /\ nsrc = 2
    /\ interpolate
    /\ Has(base_env, "A")
    /\ Lookup(base_env, "A") = Some(<< "9" >>)
    /\ Has(Get(prev_dict), "A")
    /\ Lookup(Get(prev_dict), "A") = Some(<< "1" >>)
    /\ last_src = << << "B", Some(<< "${A}" >>) >> >>
    /\ Lookup(Get(d_dict), "B") = Some(<< "1" >>)

\* C9: the keys of a resolved mapping iterate in the order of their first
\* definition, in the mapping resolve_variables returns and in the one kept
\* across update_dict calls; redefining a key does not move it.
C9_FirstDefinitionOrder ==
    /\ IsSome(d_dict) => KeyOrder(Get(d_dict)) = first_order
    /\ rv.called => KeyOrder(rv.out) = AppendNew(<< >>, rv.values)

\* C9's case: A then B defined, and A redefined by a later update_dict call
\* with another value.
C9_Witness ==
    /\ IsSome(prev_dict)
    /\ KeyOrder(Get(prev_dict)) = << "A", "B" >>
    /\ Defines(last_src, "A")
    /\ Has(Get(d_dict), "A")
    /\ Lookup(Get(d_dict), "A") # Lookup(Get(prev_dict), "A")
    /\ KeyOrder(Get(d_dict)) = << "A", "B" >>

\* C14: set_as_environment_variables without override leaves the value of
\* every variable already in the ambient environment as it was; with either
\* override setting it removes no variable and writes no key whose resolved
\* value is absent.
C14_AmbientEnvironmentFrame ==
    [][ (api = "load_dotenv" /\ mpc = "start" /\ mpc' = "done")
        => /\ \A k \in DictKeys(environ) :
                  /\ Has(environ', k)
                  /\ ~override => Lookup(environ', k) = Lookup(environ, k)
           /\ \A k \in DictKeys(Get(d_dict')) :
                  Lookup(Get(d_dict'), k) = None
                  => /\ Has(environ', k) = Has(environ, k)
                     /\ Has(environ, k)
                        => Lookup(environ', k) = Lookup(environ, k) ]_vars

\* C14's case: load_dotenv without override on a file binding A, which the
\* ambient environment holds, to another value: the environment keeps its own.
C14_Witness ==
    /\ api = "load_dotenv"
    /\ mpc = "done"
    /\ ~override
    /\ Has(environ, "A")
    /\ Has(Get(d_dict), "A")
    /\ Lookup(Get(d_dict), "A") = Some(<< "1" >>)
    /\ Lookup(environ, "A") = Some(<< "9" >>)

\* C19: for a single source s, chained_dotenv_values([s], base_env) returns
\* the mapping, keys in the same order, that dotenv_values returns for s with
\* override true and the same base_env; so it does when s yields no keys.
\* (last_src is what s parses to: when the one update_dict call left _dict
\* empty, s yielded no pairs, and parsing it again yields none either.)
C19_SingleSourceChainIsDotenvValues ==
    (api = "chained_dotenv_values" /\ mpc = "done" /\ nsrc = 1)
    => ret = Some(fresh_dict(last_src, interpolate, TRUE, base_env))

\* C19's case: a single source that yields no keys, with a base_env that
\* holds some; dict() parses the source a second time.
C19_Witness ==
    /\ api = "chained_dotenv_values"
    /\ mpc = "done"
    /\ nsrc = 1
    /\ base_env # << >>
    /\ ret = Some(<< >>)
    /\ prev_dict = Some(<< >>)

\* ------------------------------------------------------- claims: the race
\* Every process has ended its call.
AllDone == \A p \in Procs : proc[p].pc = "done"

\* C16: whatever the interleaving of readers and mutators on one path, what
\* a reader reads is the complete content from before a transaction or the
\* complete output of a committed one; and once all mutators have ended,
\* the content is the output of the one that committed last.
C16_OnlyCompleteContentVisible ==
    /\ seen.read => seen.content \in complete
    /\ (AllDone /\ IsSome(last_commit)) => target = last_commit

====
